---- MODULE Spec2Model ----
(***************************************************************************)
(* Learning Hub backend API (src/app/api/learning-hub/route.ts): the       *)
(* process-wide TTL cache, the hash-derived user profile, the content      *)
(* generators and the GET / POST request handlers.  With it, the NASA 3D   *)
(* resource loader (src/lib/official-nasa-3d-loader.ts) and the game state *)
(* of the farm simulation page (src/app/farm/simulation/page.tsx).         *)
(*                                                                         *)
(* Strings that are only compared are TLA+ strings.  A userId is a         *)
(* sequence of one-character strings, because the profile hash folds its   *)
(* character codes; Str turns it into the string used in cache keys.       *)
(* JavaScript's null / undefined is Null; an array is the record Arr(s).   *)
(*                                                                         *)
(* Spec runs the handlers with the generators as written.  SpecCatching    *)
(* runs GET with one generator that throws when called, to reach the catch *)
(* branches of the fetchers.  SpecDerive applies the profile derivation to *)
(* a userId drawn at the start.  SpecInterleaved runs one reading and one  *)
(* writing handler of the hub, each suspended at its awaits.  SpecLoader   *)
(* runs calls of loadNASA3DModel and the settlements of their loads.       *)
(* SpecFarm runs the game loop, the player actions, the mode change and    *)
(* the pause button of the farm simulation.  A specification leaves the    *)
(* variables of the other parts at Null.                                   *)
(***************************************************************************)
EXTENDS Integers, Sequences, FiniteSets, TLC

VARIABLES
  learningCache,  \* the process-wide cache: key -> [data, timestamp]
  now,            \* Date.now()
  request,        \* the request being answered, Null between requests
  response,       \* its response, Null between requests
  cacheBefore,    \* the cache as the request being answered found it
  inflight,       \* the learning-hub handlers suspended at an await
  loader,         \* the NASA 3D resource loader and the calls made to it
  farm            \* the farm simulation page: gameState, gameSpeed, nasaData

vars == <<learningCache, now, request, response, cacheBefore, inflight, loader, farm>>

hubVars == <<learningCache, now, request, response, cacheBefore>>

-----------------------------------------------------------------------------
(* Bounds of the model *)

\* The clock advances at most this many times.
MaxTicks == 1

\* The cache holds at most this many entries.
MaxEntries == 2

\* Longest userId a profile is derived for.
MaxUserIdLength == 7

\* Calls of loadNASA3DModel in one run of the loader.
MaxCalls == 4

\* The game loop runs until this day of a game.
MaxDay == 2

\* Player actions that are paid for in one run of the page.
MaxActions == 5

-----------------------------------------------------------------------------
(* Values *)

Null == [null |-> TRUE]

Arr(s) == [length |-> Len(s), items |-> s]

RECURSIVE Str(_)
Str(s) == IF s = <<>> THEN "" ELSE Head(s) \o Str(Tail(s))

CharCode(c) ==
  CASE c = "A" -> 65
    [] c = "_" -> 95
    [] c = "e" -> 101
    [] c = "g" -> 103
    [] c = "s" -> 115
    [] c = "t" -> 116
    [] c = "u" -> 117

Guest == <<"g", "u", "e", "s", "t">>

Max(a, b) == IF a >= b THEN a ELSE b

Min(a, b) == IF a <= b THEN a ELSE b

\* Array.prototype.slice(0, n) for 0 <= n.
Slice(s, n) == SubSeq(s, 1, Min(n, Len(s)))

-----------------------------------------------------------------------------
(* Clock *)

CACHE_DURATION == 30 * 60 * 1000

DAY_MS == 24 * 60 * 60 * 1000

\* new Date().toISOString().split('T')[0]: the UTC calendar day of instant t,
\* as the number of whole days since the epoch.
ISODate(t) == t \div DAY_MS

\* Date.now() when the module is loaded: 23:30 UTC of day 0.
StartTime == DAY_MS - CACHE_DURATION

\* The clock moves by the TTL or by one millisecond less.
TickSteps == {CACHE_DURATION - 1, CACHE_DURATION}

TicksTaken(t) == (t - StartTime) \div (CACHE_DURATION - 1)

-----------------------------------------------------------------------------
(* Cache: getCachedData, setCachedData, learningCache.delete *)

IsFresh(cache, t, key) ==
  key \in DOMAIN cache /\ t - cache[key].timestamp < CACHE_DURATION

\* Mutant: an entry exactly as old as the TTL still counts as fresh.
getCachedData_InclusiveTtl(cache, t, key) ==
  IF key \in DOMAIN cache /\ t - cache[key].timestamp <= CACHE_DURATION
  THEN cache[key].data
  ELSE Null

getCachedData(cache, t, key) ==
  IF IsFresh(cache, t, key) THEN cache[key].data ELSE Null

\* Mutant: the timestamp is stored in seconds.
setCachedData_SecondsTimestamp(cache, t, key, data) ==
  [k \in DOMAIN cache \cup {key} |->
     IF k = key THEN [data |-> data, timestamp |-> t \div 1000] ELSE cache[k]]

setCachedData(cache, t, key, data) ==
  [k \in DOMAIN cache \cup {key} |->
     IF k = key THEN [data |-> data, timestamp |-> t] ELSE cache[k]]

\* Mutant: delete removes nothing.
cacheDelete_KeepsEntry(cache, key) == cache

cacheDelete(cache, key) ==
  [k \in DOMAIN cache \ {key} |-> cache[k]]

EmptyCache == [k \in {} |-> Null]

-----------------------------------------------------------------------------
(* Content generators *)

baseModules ==
  << [id |-> "nasa-data-intro", xp |-> 150, completed |-> FALSE,
      difficulty |-> "beginner", category |-> "fundamentals"],
     [id |-> "satellite-imagery", xp |-> 200, completed |-> FALSE,
      difficulty |-> "intermediate", category |-> "analysis"],
     [id |-> "ndvi-analysis", xp |-> 250, completed |-> FALSE,
      difficulty |-> "intermediate", category |-> "monitoring"],
     [id |-> "soil-moisture", xp |-> 300, completed |-> FALSE,
      difficulty |-> "advanced", category |-> "precision-agriculture"],
     [id |-> "climate-adaptation", xp |-> 400, completed |-> FALSE,
      difficulty |-> "advanced", category |-> "sustainability"] >>

\* Array.prototype.filter on the difficulty field.
RECURSIVE FilterByDifficulty(_, _)
FilterByDifficulty(s, level) ==
  IF s = <<>> THEN <<>>
  ELSE IF Head(s).difficulty = level
       THEN <<Head(s)>> \o FilterByDifficulty(Tail(s), level)
       ELSE FilterByDifficulty(Tail(s), level)

\* level is "" when the caller passes undefined or the empty string.
generateDynamicModules(level, userId) ==
  IF level # "" /\ level # "all"
  THEN Arr(FilterByDifficulty(baseModules, level))
  ELSE Arr(baseModules)

generateDynamicAssessments(userId) ==
  Arr(<< [id |-> "nasa-fundamentals", questions |-> 10, timeLimit |-> 15,
          difficulty |-> "beginner", xpReward |-> 200],
         [id |-> "satellite-analysis", questions |-> 15, timeLimit |-> 25,
          difficulty |-> "intermediate", xpReward |-> 350] >>)

-----------------------------------------------------------------------------
(* Profile derivation *)

\* Mutant: the shift is by 4 bits.
Shl5_ByFour(a) ==
  LET low == a % (2^28)
  IN  IF low >= 2^27 THEN (low - 2^28) * 16 ELSE low * 16

\* a << 5: the low 32 bits of a * 32 read as a signed 32-bit integer.
Shl5(a) ==
  LET low == a % (2^27)
  IN  IF low >= 2^26 THEN (low - 2^27) * 32 ELSE low * 32

\* A Number holding an integer beyond 32 bits: hi * 65536 + lo with lo in
\* 0..65535.  The accumulator of the reduce below is such a number:
\* (a << 5) is a 32-bit integer, but - a and + charCode are not wrapped.
Num(n) == [hi |-> n \div 65536, lo |-> n % 65536]

Plus(x, y) ==
  LET lo == x.lo + y.lo
  IN  [hi |-> x.hi + y.hi + (lo \div 65536), lo |-> lo % 65536]

\* ToInt32: the low 32 bits read as a signed integer.
ToInt32(x) ==
  LET h == x.hi % 65536
  IN  (IF h >= 32768 THEN h - 65536 ELSE h) * 65536 + x.lo

\* Math.abs
Abs(x) ==
  IF x.hi >= 0 THEN x
  ELSE IF x.lo = 0 THEN [hi |-> -x.hi, lo |-> 0]
       ELSE [hi |-> -x.hi - 1, lo |-> 65536 - x.lo]

\* Mutant: the remainder may also be n itself.
Mod_Inclusive(x, n) == ((x.hi % (n + 1)) * (65536 % (n + 1)) + x.lo) % (n + 1)

\* x % n for x >= 0 and 0 < n <= 1000
Mod(x, n) == ((x.hi % n) * (65536 % n) + x.lo) % n

\* ((a << 5) - a) + c, the subtraction and the addition done on the two
\* halves with the borrow or carry moved into hi.
HashStep(a, c) ==
  LET shifted == Shl5(ToInt32(a))
      lo == ((shifted % 65536) - a.lo) + CharCode(c)
  IN  [hi |-> ((shifted \div 65536) - a.hi) + (lo \div 65536), lo |-> lo % 65536]

\* userId.split('').reduce((a, b) => ((a << 5) - a) + b.charCodeAt(0), 0)
RECURSIVE HashFrom(_, _)
HashFrom(a, s) ==
  IF s = <<>> THEN a ELSE HashFrom(HashStep(a, Head(s)), Tail(s))

userHash(userId) == HashFrom(Num(0), userId)

levels ==
  << "Novice Farmer", "Farm Analyst", "Data Specialist",
     "Sustainability Expert", "Master Navigator" >>

getLevelName(level) ==
  LET i == Min(level - 1, Len(levels) - 1)
  IN  IF i >= 0 THEN levels[i + 1] ELSE "Master Navigator"

allAchievements(t) ==
  << [id |-> "first-steps", title |-> "First Steps", date |-> ISODate(t)],
     [id |-> "data-explorer", title |-> "Data Explorer", date |-> ISODate(t)],
     [id |-> "quick-learner", title |-> "Quick Learner", date |-> ISODate(t)] >>

getUserAchievements(t, userId) ==
  LET achievementCount == Mod(Abs(userHash(userId)), 3) + 1
  IN  Arr(Slice(allAchievements(t), achievementCount))

possibleModules == << "nasa-data-intro", "satellite-imagery", "ndvi-analysis" >>

\* Mutant: as many completed modules as achievements.
getUserCompletedModules_OneMore(userId) ==
  LET completedCount == Mod(Abs(userHash(userId)), 3) + 1
  IN  Arr(Slice(possibleModules, completedCount))

getUserCompletedModules(userId) ==
  LET completedCount == Mod(Abs(userHash(userId)), 3)
  IN  Arr(Slice(possibleModules, completedCount))

getUserProgressFromDatabase(t, userId) ==
  LET h == userHash(userId)
      level == Max(1, Mod(Abs(h), 5) + 1)
      currentXP == Mod(Abs(h), 1000) + 500
      baseXP == level * 1000
  IN  [ userId |-> Str(userId),
        level |-> level,
        currentXP |-> currentXP,
        totalXP |-> baseXP,
        nextLevel |-> getLevelName(level + 1),
        achievements |-> getUserAchievements(t, userId),
        completedModules |-> getUserCompletedModules(userId),
        streakDays |-> Mod(Abs(h), 30) + 1,
        totalStudyTime |-> Mod(Abs(h), 500) + 100 ]

getDefaultUserProgress(userId) ==
  [ userId |-> Str(userId), level |-> 1, currentXP |-> 0, totalXP |-> 1000,
    nextLevel |-> "Farm Analyst", achievements |-> Arr(<<>>),
    completedModules |-> Arr(<<>>), streakDays |-> 1, totalStudyTime |-> 0 ]

-----------------------------------------------------------------------------
(* Cached fetchers.  Each returns the cache it leaves and the value it     *)
(* resolves to.  Their catch branches are not reached: no generator below  *)
(* throws.                                                                 *)

modulesKey(level, userId) ==
  "modules_" \o (IF level # "" THEN level ELSE "all") \o "_"
             \o (IF userId # <<>> THEN Str(userId) ELSE "guest")

\* Mutant: the progress key leaves the userId out.
userProgressKey_Shared(userId) == "user_progress_"

userProgressKey(userId) == "user_progress_" \o Str(userId)

assessmentsKey(userId) ==
  "assessments_" \o (IF userId # <<>> THEN Str(userId) ELSE "guest")

fetchLearningModules(cache, t, level, userId) ==
  LET cacheKey == modulesKey(level, userId)
      cached == getCachedData(cache, t, cacheKey)
      modules == generateDynamicModules(level, userId)
  IN  IF cached # Null
      THEN [cache |-> cache, ret |-> cached]
      ELSE [cache |-> setCachedData(cache, t, cacheKey, modules), ret |-> modules]

\* Mutant: a hit re-stamps the entry it returns.
fetchUserProgress_TouchOnHit(cache, t, userId) ==
  LET cacheKey == userProgressKey(userId)
      cached == getCachedData(cache, t, cacheKey)
      progress == getUserProgressFromDatabase(t, userId)
  IN  IF cached # Null
      THEN [cache |-> setCachedData(cache, t, cacheKey, cached), ret |-> cached]
      ELSE [cache |-> setCachedData(cache, t, cacheKey, progress), ret |-> progress]

fetchUserProgress(cache, t, userId) ==
  LET cacheKey == userProgressKey(userId)
      cached == getCachedData(cache, t, cacheKey)
      progress == getUserProgressFromDatabase(t, userId)
  IN  IF cached # Null
      THEN [cache |-> cache, ret |-> cached]
      ELSE [cache |-> setCachedData(cache, t, cacheKey, progress), ret |-> progress]

fetchAssessments(cache, t, userId) ==
  LET cacheKey == assessmentsKey(userId)
      cached == getCachedData(cache, t, cacheKey)
      assessments == generateDynamicAssessments(userId)
  IN  IF cached # Null
      THEN [cache |-> cache, ret |-> cached]
      ELSE [cache |-> setCachedData(cache, t, cacheKey, assessments), ret |-> assessments]

-----------------------------------------------------------------------------
(* The fetchers with their catch branches.  throws says whether the        *)
(* generator throws when it is called; caught holds the messages the catch *)
(* branches write with console.error.                                      *)

\* Mutant: the catch branch stores its fallback in the cache.
fetchLearningModulesCatching_CachesFallback(cache, t, level, userId, throws) ==
  LET cacheKey == modulesKey(level, userId)
      cached == getCachedData(cache, t, cacheKey)
      f == fetchLearningModules(cache, t, level, userId)
  IN  IF cached = Null /\ throws
      THEN [cache |-> setCachedData(cache, t, cacheKey, Arr(<<>>)), ret |-> Arr(<<>>),
            caught |-> {"Failed to fetch learning modules:"}]
      ELSE [cache |-> f.cache, ret |-> f.ret, caught |-> {}]

fetchLearningModulesCatching(cache, t, level, userId, throws) ==
  LET cacheKey == modulesKey(level, userId)
      cached == getCachedData(cache, t, cacheKey)
      f == fetchLearningModules(cache, t, level, userId)
  IN  IF cached = Null /\ throws
      THEN [cache |-> cache, ret |-> Arr(<<>>),
            caught |-> {"Failed to fetch learning modules:"}]
      ELSE [cache |-> f.cache, ret |-> f.ret, caught |-> {}]

fetchUserProgressCatching(cache, t, userId, throws) ==
  LET cacheKey == userProgressKey(userId)
      cached == getCachedData(cache, t, cacheKey)
      f == fetchUserProgress(cache, t, userId)
  IN  IF cached = Null /\ throws
      THEN [cache |-> cache, ret |-> getDefaultUserProgress(userId),
            caught |-> {"Failed to fetch user progress:"}]
      ELSE [cache |-> f.cache, ret |-> f.ret, caught |-> {}]

fetchAssessmentsCatching(cache, t, userId, throws) ==
  LET cacheKey == assessmentsKey(userId)
      cached == getCachedData(cache, t, cacheKey)
      f == fetchAssessments(cache, t, userId)
  IN  IF cached = Null /\ throws
      THEN [cache |-> cache, ret |-> Arr(<<>>),
            caught |-> {"Failed to fetch assessments:"}]
      ELSE [cache |-> f.cache, ret |-> f.ret, caught |-> {}]

-----------------------------------------------------------------------------
(* Progress tracking: both resolve to true and leave the cache they return. *)

\* Mutant: the module list of the user is not invalidated.
updateModuleProgress_ProgressOnly(cache, userId, moduleId, completed) ==
  [cache |-> cacheDelete(cache, userProgressKey(userId)), ret |-> TRUE]

updateModuleProgress(cache, userId, moduleId, completed) ==
  [cache |-> cacheDelete(cacheDelete(cache, userProgressKey(userId)),
                         "modules_all_" \o Str(userId)),
   ret |-> TRUE]

\* Mutant: the award does not invalidate the progress entry.
awardXP_NoInvalidate(cache, userId, xpAmount) == [cache |-> cache, ret |-> TRUE]

awardXP(cache, userId, xpAmount) ==
  [cache |-> cacheDelete(cache, userProgressKey(userId)), ret |-> TRUE]

-----------------------------------------------------------------------------
(* Personalised module content *)

generatePersonalizedTips(userProgress) ==
  LET tips == << [tip |-> "level-reached", n |-> userProgress.level],
                 [tip |-> "apply-to-datasets", n |-> 0] >>
  IN  IF userProgress.streakDays > 7
      THEN Arr(Append(tips, [tip |-> "streak", n |-> userProgress.streakDays]))
      ELSE Arr(tips)

Includes(arr, x) == \E i \in 1..arr.length : arr.items[i] = x

getRecommendedModule(userProgress) ==
  LET completed == userProgress.completedModules
  IN  IF completed.length = 0 THEN "nasa-data-intro"
      ELSE IF ~Includes(completed, "satellite-imagery") THEN "satellite-imagery"
      ELSE "ndvi-analysis"

getDifficultyLevel(userProgress) ==
  IF userProgress.level >= 3 THEN "advanced"
  ELSE IF userProgress.level >= 2 THEN "intermediate"
  ELSE "beginner"

\* The estimated time in minutes.
getEstimatedTime(moduleId, userProgress) ==
  LET baseTime == 20
      adjustment == IF userProgress.level > 2 THEN -5 ELSE 5
  IN  baseTime + adjustment

generateModuleContent(cache, t, moduleId, userId) ==
  LET p == fetchUserProgress(cache, t, userId)
  IN  [cache |-> p.cache,
       ret |-> [ personalizedTips |-> generatePersonalizedTips(p.ret),
                 recommendedNext |-> getRecommendedModule(p.ret),
                 difficultyAdjustment |-> getDifficultyLevel(p.ret),
                 estimatedTime |-> getEstimatedTime(moduleId, p.ret) ]]

-----------------------------------------------------------------------------
(* Route handlers.  Each returns the cache it leaves and its response.     *)
(* A query or body parameter that is missing or empty is "" (a userId:     *)
(* the empty sequence).                                                    *)

Ok(data) == [status |-> 200, success |-> TRUE, data |-> data]

\* The responses of modules and progress also carry cache: { cached: false,
\* timestamp }; the timestamp (the time of the response) is left out.
OkUncached(data) ==
  [status |-> 200, success |-> TRUE, data |-> data, cache |-> [cached |-> FALSE]]

Err(status, error) == [status |-> status, error |-> error]

\* Mutant: find falls back to the first module when none matches.
FindModule_FirstWhenMissing(arr, moduleId) ==
  IF \E i \in 1..arr.length : arr.items[i].id = moduleId
  THEN arr.items[CHOOSE i \in 1..arr.length : arr.items[i].id = moduleId]
  ELSE IF arr.length > 0 THEN arr.items[1] ELSE Null

\* Array.prototype.find on the id field: the index of the first match, or 0.
FindModule(arr, moduleId) ==
  IF \E i \in 1..arr.length : arr.items[i].id = moduleId
  THEN arr.items[CHOOSE i \in 1..arr.length :
                   /\ arr.items[i].id = moduleId
                   /\ \A j \in 1..(i - 1) : arr.items[j].id # moduleId]
  ELSE Null

\* Mutant: the 'You' entry shows totalXP.
mockLeaderboard_TotalXp(currentUser) ==
  << [rank |-> 1, name |-> "NASA Explorer", xp |-> 5420, level |-> "Sustainability Expert"],
     [rank |-> 2, name |-> "Farm Innovator", xp |-> 4890, level |-> "Sustainability Expert"],
     [rank |-> 3, name |-> "You", xp |-> currentUser.totalXP,
      level |-> getLevelName(currentUser.level)],
     [rank |-> 4, name |-> "Earth Observer", xp |-> 1180, level |-> "Farm Analyst"],
     [rank |-> 5, name |-> "Crop Master", xp |-> 980, level |-> "Farm Analyst"] >>

mockLeaderboard(currentUser) ==
  << [rank |-> 1, name |-> "NASA Explorer", xp |-> 5420, level |-> "Sustainability Expert"],
     [rank |-> 2, name |-> "Farm Innovator", xp |-> 4890, level |-> "Sustainability Expert"],
     [rank |-> 3, name |-> "You", xp |-> currentUser.currentXP,
      level |-> getLevelName(currentUser.level)],
     [rank |-> 4, name |-> "Earth Observer", xp |-> 1180, level |-> "Farm Analyst"],
     [rank |-> 5, name |-> "Crop Master", xp |-> 980, level |-> "Farm Analyst"] >>

GETModules(cache, t, levelParam, userId) ==
  LET level == IF levelParam # "" THEN levelParam ELSE "all"
      m == fetchLearningModules(cache, t, level, userId)
  IN  [cache |-> m.cache,
       response |-> OkUncached(
         [modules |-> m.ret, totalModules |-> m.ret.length,
          categories |-> Arr(<<"fundamentals", "analysis", "monitoring",
                               "precision-agriculture", "sustainability">>)])]

GETProgress(cache, t, userId) ==
  LET p == fetchUserProgress(cache, t, userId)
  IN  [cache |-> p.cache, response |-> OkUncached(p.ret)]

GETModuleContent(cache, t, moduleId, userId) ==
  IF moduleId = ""
  THEN [cache |-> cache, response |-> Err(400, "Module ID required")]
  ELSE
    LET m == fetchLearningModules(cache, t, "all", userId)
        foundModule == FindModule(m.ret, moduleId)
        c == generateModuleContent(m.cache, t, moduleId, userId)
        p == fetchUserProgress(c.cache, t, userId)
    IN  IF foundModule = Null
        THEN [cache |-> m.cache, response |-> Err(404, "Module not found")]
        ELSE [cache |-> p.cache,
              response |-> Ok([module |-> foundModule, dynamic |-> c.ret,
                               userProgress |-> p.ret])]

GETAssessments(cache, t, userId) ==
  LET a == fetchAssessments(cache, t, userId)
  IN  [cache |-> a.cache,
       response |-> Ok([assessments |-> a.ret, userCompletedAssessments |-> Arr(<<>>)])]

GETLeaderboard(cache, t, userId) ==
  LET p == fetchUserProgress(cache, t, userId)
  IN  [cache |-> p.cache,
       response |-> Ok([leaderboard |-> Arr(mockLeaderboard(p.ret)),
                        userRank |-> 3, totalUsers |-> 1247])]

-----------------------------------------------------------------------------
(* GET with generators that may throw.  throwing is the set of generators  *)
(* that throw when called; the result also carries what was caught.        *)

Generators ==
  {"generateDynamicModules", "getUserProgressFromDatabase", "generateDynamicAssessments"}

generateModuleContentCatching(cache, t, moduleId, userId, throws) ==
  LET p == fetchUserProgressCatching(cache, t, userId, throws)
  IN  [cache |-> p.cache, caught |-> p.caught,
       ret |-> [ personalizedTips |-> generatePersonalizedTips(p.ret),
                 recommendedNext |-> getRecommendedModule(p.ret),
                 difficultyAdjustment |-> getDifficultyLevel(p.ret),
                 estimatedTime |-> getEstimatedTime(moduleId, p.ret) ]]

GETCatching(cache, t, action, moduleId, userIdParam, levelParam, throwing) ==
  LET userId == IF userIdParam # <<>> THEN userIdParam ELSE Guest
      level == IF levelParam # "" THEN levelParam ELSE "all"
      modulesThrow == "generateDynamicModules" \in throwing
      progressThrows == "getUserProgressFromDatabase" \in throwing
      assessmentsThrow == "generateDynamicAssessments" \in throwing
  IN  CASE action = "modules" ->
             LET m == fetchLearningModulesCatching(cache, t, level, userId, modulesThrow)
             IN  [cache |-> m.cache, caught |-> m.caught,
                  response |-> OkUncached(
                    [modules |-> m.ret, totalModules |-> m.ret.length,
                     categories |-> Arr(<<"fundamentals", "analysis", "monitoring",
                                          "precision-agriculture", "sustainability">>)])]
        [] action = "progress" ->
             LET p == fetchUserProgressCatching(cache, t, userId, progressThrows)
             IN  [cache |-> p.cache, caught |-> p.caught, response |-> OkUncached(p.ret)]
        [] action = "module-content" ->
             IF moduleId = ""
             THEN [cache |-> cache, caught |-> {},
                   response |-> Err(400, "Module ID required")]
             ELSE
               LET m == fetchLearningModulesCatching(cache, t, "all", userId, modulesThrow)
                   foundModule == FindModule(m.ret, moduleId)
                   c == generateModuleContentCatching(m.cache, t, moduleId, userId,
                                                      progressThrows)
                   p == fetchUserProgressCatching(c.cache, t, userId, progressThrows)
               IN  IF foundModule = Null
                   THEN [cache |-> m.cache, caught |-> m.caught,
                         response |-> Err(404, "Module not found")]
                   ELSE [cache |-> p.cache,
                         caught |-> m.caught \cup c.caught \cup p.caught,
                         response |-> Ok([module |-> foundModule, dynamic |-> c.ret,
                                          userProgress |-> p.ret])]
        [] action = "assessments" ->
             LET a == fetchAssessmentsCatching(cache, t, userId, assessmentsThrow)
             IN  [cache |-> a.cache, caught |-> a.caught,
                  response |-> Ok([assessments |-> a.ret,
                                   userCompletedAssessments |-> Arr(<<>>)])]
        [] action = "leaderboard" ->
             LET p == fetchUserProgressCatching(cache, t, userId, progressThrows)
             IN  [cache |-> p.cache, caught |-> p.caught,
                  response |-> Ok([leaderboard |-> Arr(mockLeaderboard(p.ret)),
                                   userRank |-> 3, totalUsers |-> 1247])]
        [] OTHER -> [cache |-> cache, caught |-> {},
                     response |-> Err(400, "Invalid action")]

\* Mutant: an unrecognized action falls through to the module list.
GET_UnknownListsModules(cache, t, action, moduleId, userIdParam, levelParam) ==
  LET userId == IF userIdParam # <<>> THEN userIdParam ELSE Guest
  IN  CASE action = "progress" -> GETProgress(cache, t, userId)
        [] action = "module-content" -> GETModuleContent(cache, t, moduleId, userId)
        [] action = "assessments" -> GETAssessments(cache, t, userId)
        [] action = "leaderboard" -> GETLeaderboard(cache, t, userId)
        [] OTHER -> GETModules(cache, t, levelParam, userId)

GET(cache, t, action, moduleId, userIdParam, levelParam) ==
  LET userId == IF userIdParam # <<>> THEN userIdParam ELSE Guest
  IN  CASE action = "modules" -> GETModules(cache, t, levelParam, userId)
        [] action = "progress" -> GETProgress(cache, t, userId)
        [] action = "module-content" -> GETModuleContent(cache, t, moduleId, userId)
        [] action = "assessments" -> GETAssessments(cache, t, userId)
        [] action = "leaderboard" -> GETLeaderboard(cache, t, userId)
        [] OTHER -> [cache |-> cache, response |-> Err(400, "Invalid action")]

\* Mutant: the progress update runs before the parameter check.
POSTStartModule_UpdateFirst(cache, t, moduleId, userId) ==
  LET u == updateModuleProgress(cache, userId, moduleId, FALSE)
      a == IF u.ret THEN awardXP(u.cache, userId, 50) ELSE u
  IN  IF moduleId = ""
      THEN [cache |-> a.cache, response |-> Err(400, "Module ID required")]
      ELSE [cache |-> a.cache,
            response |-> Ok([message |-> "Module started successfully", xpAwarded |-> 50])]

POSTStartModule(cache, t, moduleId, userId) ==
  IF moduleId = ""
  THEN [cache |-> cache, response |-> Err(400, "Module ID required")]
  ELSE
    LET u == updateModuleProgress(cache, userId, moduleId, FALSE)
        a == IF u.ret THEN awardXP(u.cache, userId, 50) ELSE u
    IN  [cache |-> a.cache,
         response |-> Ok([message |-> "Module started successfully", xpAwarded |-> 50])]

POSTCompleteModule(cache, t, moduleId, userId) ==
  IF moduleId = ""
  THEN [cache |-> cache, response |-> Err(400, "Module ID required")]
  ELSE
    LET u == updateModuleProgress(cache, userId, moduleId, TRUE)
        a == IF u.ret THEN awardXP(u.cache, userId, 150) ELSE u
        p == fetchUserProgress(a.cache, t, userId)
    IN  [cache |-> p.cache,
         response |-> Ok([message |-> "Module completed successfully",
                          xpAwarded |-> 150, newXP |-> p.ret.currentXP])]

\* rnd is Math.floor(Math.random() * 40).
\* Mutant: the request is refused only when both fields are missing.
POSTSubmitAssessment_BothMissing(cache, t, assessmentId, answers, rnd, userId) ==
  IF assessmentId = "" /\ answers = Null
  THEN [cache |-> cache, response |-> Err(400, "Assessment ID and answers required")]
  ELSE
    LET mockScore == rnd + 60
        xpEarned == IF mockScore > 70 THEN 200 ELSE 100
        a == awardXP(cache, userId, xpEarned)
        p == fetchUserProgress(a.cache, t, userId)
    IN  [cache |-> p.cache,
         response |-> Ok([score |-> mockScore, xpEarned |-> xpEarned,
                          passed |-> (mockScore >= 70),
                          newTotalXP |-> p.ret.currentXP])]

\* Mutant: the score starts at 62, so the largest draw gives 101.
POSTSubmitAssessment_ScoreFromSixtyTwo(cache, t, assessmentId, answers, rnd, userId) ==
  IF assessmentId = "" \/ answers = Null
  THEN [cache |-> cache, response |-> Err(400, "Assessment ID and answers required")]
  ELSE
    LET mockScore == rnd + 62
        xpEarned == IF mockScore > 70 THEN 200 ELSE 100
        a == awardXP(cache, userId, xpEarned)
        p == fetchUserProgress(a.cache, t, userId)
    IN  [cache |-> p.cache,
         response |-> Ok([score |-> mockScore, xpEarned |-> xpEarned,
                          passed |-> (mockScore >= 70),
                          newTotalXP |-> p.ret.currentXP])]

POSTSubmitAssessment(cache, t, assessmentId, answers, rnd, userId) ==
  IF assessmentId = "" \/ answers = Null
  THEN [cache |-> cache, response |-> Err(400, "Assessment ID and answers required")]
  ELSE
    LET mockScore == rnd + 60
        xpEarned == IF mockScore > 70 THEN 200 ELSE 100
        a == awardXP(cache, userId, xpEarned)
        p == fetchUserProgress(a.cache, t, userId)
    IN  [cache |-> p.cache,
         response |-> Ok([score |-> mockScore, xpEarned |-> xpEarned,
                          passed |-> (mockScore >= 70),
                          newTotalXP |-> p.ret.currentXP])]

\* Mutant: request.json() is awaited outside the try, so its rejection ends
\* in a bare 500 without a JSON body.
POST_ParseOutsideTry(cache, t, body, rnd, userIdParam) ==
  LET userId == IF userIdParam # <<>> THEN userIdParam ELSE Guest
  IN  IF body = Null
      THEN [cache |-> cache, response |-> [status |-> 500]]
      ELSE CASE body.action = "start-module" ->
                  POSTStartModule(cache, t, body.moduleId, userId)
             [] body.action = "complete-module" ->
                  POSTCompleteModule(cache, t, body.moduleId, userId)
             [] body.action = "submit-assessment" ->
                  POSTSubmitAssessment(cache, t, body.assessmentId, body.answers, rnd, userId)
             [] OTHER -> [cache |-> cache, response |-> Err(400, "Invalid POST action")]

\* body is Null when request.json() rejects.
POST(cache, t, body, rnd, userIdParam) ==
  LET userId == IF userIdParam # <<>> THEN userIdParam ELSE Guest
  IN  IF body = Null
      THEN [cache |-> cache, response |-> Err(500, "Failed to process request")]
      ELSE CASE body.action = "start-module" ->
                  POSTStartModule(cache, t, body.moduleId, userId)
             [] body.action = "complete-module" ->
                  POSTCompleteModule(cache, t, body.moduleId, userId)
             [] body.action = "submit-assessment" ->
                  POSTSubmitAssessment(cache, t, body.assessmentId, body.answers, rnd, userId)
             [] OTHER -> [cache |-> cache, response |-> Err(400, "Invalid POST action")]

-----------------------------------------------------------------------------
(* Requests the model issues *)

UserIdParams == { <<>>, <<"_", "g", "u", "e", "s", "t">> }

LevelParams == { "", "all", "all_" }

ModuleIdParams == { "", "nasa-data-intro", "no-such-module" }

AssessmentIdParams == { "", "nasa-fundamentals" }

AnswersParams == { Null, Arr(<<>>) }

\* Values of Math.floor(Math.random() * 40), which lies in 0..39: both ends
\* and the values around the pass threshold.
RandomOutcomes == {0, 9, 10, 11, 39}

GetRequests ==
  { [method |-> "GET", action |-> "modules", moduleId |-> "", userId |-> u, level |-> l] :
      u \in UserIdParams, l \in LevelParams }
  \cup
  { [method |-> "GET", action |-> a, moduleId |-> "", userId |-> u, level |-> ""] :
      u \in UserIdParams, a \in {"progress", "assessments", "leaderboard", "", "unknown"} }
  \cup
  { [method |-> "GET", action |-> "module-content", moduleId |-> m, userId |-> u, level |-> ""] :
      u \in UserIdParams, m \in ModuleIdParams }

Bodies ==
  { Null }
  \cup
  { [action |-> a, moduleId |-> m, assessmentId |-> "", answers |-> Null] :
      a \in {"start-module", "complete-module"}, m \in ModuleIdParams }
  \cup
  { [action |-> "submit-assessment", moduleId |-> "", assessmentId |-> i, answers |-> w] :
      i \in AssessmentIdParams, w \in AnswersParams }
  \cup
  { [action |-> a, moduleId |-> "", assessmentId |-> "", answers |-> Null] :
      a \in {"", "unknown"} }

PostRequests ==
  { [method |-> "POST", userId |-> u, body |-> b] : u \in UserIdParams, b \in Bodies }

\* The random source is read only by a submit-assessment that passes its
\* parameter check.
DrawsRandom(body) ==
  /\ body # Null
  /\ body.action = "submit-assessment"
  /\ body.assessmentId # ""
  /\ body.answers # Null

-----------------------------------------------------------------------------
(* State machine.  A handler runs to its response in one step; the         *)
(* response is then delivered, after which the next request is taken.      *)

Init ==
  /\ learningCache = EmptyCache
  /\ now = StartTime
  /\ request = Null
  /\ response = Null
  /\ cacheBefore = EmptyCache
  /\ inflight = Null
  /\ loader = Null
  /\ farm = Null

Idle == response = Null

Fits(cache) == Cardinality(DOMAIN cache) <= MaxEntries

HandleGET ==
  /\ Idle
  /\ UNCHANGED <<inflight, loader, farm>>
  /\ \E req \in GetRequests :
       \E r \in { GET(learningCache, now, req.action, req.moduleId, req.userId,
                      req.level) } :
           /\ Fits(r.cache)
           /\ learningCache' = r.cache
           /\ request' = req
           /\ response' = r.response
           /\ cacheBefore' = learningCache
           /\ UNCHANGED now

HandlePOST ==
  /\ Idle
  /\ UNCHANGED <<inflight, loader, farm>>
  /\ \E req \in PostRequests :
       \E rnd \in IF DrawsRandom(req.body) THEN RandomOutcomes ELSE {0} :
         \E r \in { POST(learningCache, now, req.body, rnd, req.userId) } :
             /\ Fits(r.cache)
             /\ learningCache' = r.cache
             /\ request' = req
             /\ response' = r.response
             /\ cacheBefore' = learningCache
             /\ UNCHANGED now

Deliver ==
  /\ ~Idle
  /\ request' = Null
  /\ response' = Null
  /\ cacheBefore' = EmptyCache
  /\ UNCHANGED <<learningCache, now, inflight, loader, farm>>

Tick ==
  /\ Idle
  /\ UNCHANGED <<inflight, loader, farm>>
  /\ TicksTaken(now) < MaxTicks
  /\ \E d \in TickSteps :
       /\ now' = now + d
       /\ UNCHANGED <<learningCache, request, response, cacheBefore>>

Next == HandleGET \/ HandlePOST \/ Deliver \/ Tick

Spec == Init /\ [][Next]_vars

-----------------------------------------------------------------------------
(* The GET handler with one failing generator.  The request records which  *)
(* generator throws and which catch branches ran.                          *)

HandleGETCatching ==
  /\ Idle
  /\ UNCHANGED <<inflight, loader, farm>>
  /\ \E req \in GetRequests, g \in Generators :
       \E r \in { GETCatching(learningCache, now, req.action, req.moduleId,
                              req.userId, req.level, {g}) } :
           /\ Fits(r.cache)
           /\ learningCache' = r.cache
           /\ request' = [method |-> "GET", action |-> req.action,
                          moduleId |-> req.moduleId, userId |-> req.userId,
                          level |-> req.level, throwing |-> {g},
                          caught |-> r.caught]
           /\ response' = r.response
           /\ cacheBefore' = learningCache
           /\ UNCHANGED now

NextCatching == HandleGETCatching \/ Deliver \/ Tick

SpecCatching == Init /\ [][NextCatching]_vars

-----------------------------------------------------------------------------
(* Profile derivation on its own: the userId is drawn at the start and     *)
(* getUserProgressFromDatabase is applied to it.  The response keeps the   *)
(* function's local userHash beside the profile it returns.                *)

Alphabet == {"A", "_", "e", "t"}

UserIds ==
  UNION { [1..n -> Alphabet] : n \in 0..MaxUserIdLength }
    \cup { Guest, <<"_", "g", "u", "e", "s", "t">> }

InitDerive ==
  /\ learningCache = EmptyCache
  /\ now = StartTime
  /\ request \in { [method |-> "derive", userId |-> u] : u \in UserIds }
  /\ response = Null
  /\ cacheBefore = EmptyCache
  /\ inflight = Null
  /\ loader = Null
  /\ farm = Null

DeriveProfile ==
  /\ response = Null
  /\ response' = [userHash |-> userHash(request.userId),
                  progress |-> getUserProgressFromDatabase(now, request.userId)]
  /\ UNCHANGED <<learningCache, now, request, cacheBefore, inflight, loader, farm>>

NextDerive == DeriveProfile

SpecDerive == InitDerive /\ [][NextDerive]_vars

-----------------------------------------------------------------------------
(* Handlers that overlap.  An async function runs until its next await and *)
(* then yields, so two requests in flight take turns at their awaits.  One *)
(* GET action=progress (the reader) and one POST (the writer) run for the  *)
(* user 'guest'; each step below is the code between two awaits.  The two  *)
(* awaits inside getUserProgressFromDatabase touch nothing shared and are  *)
(* folded into the step that calls it.                                     *)
(*                                                                         *)
(* outdated is history: it marks a progress value that was computed before *)
(* an invalidation of the user's progress entry.                           *)

IdleHandler == [pc |-> "idle", action |-> "", progress |-> Null, outdated |-> FALSE]

WriteActions == {"start-module", "complete-module", "submit-assessment"}

InitInterleaved ==
  /\ learningCache = EmptyCache
  /\ now = StartTime
  /\ request = Null
  /\ response = Null
  /\ cacheBefore = EmptyCache
  /\ inflight = [reader |-> IdleHandler, writer |-> IdleHandler, entryOutdated |-> FALSE]
  /\ loader = Null
  /\ farm = Null

\* fetchUserProgress up to its await: the cached value on a hit, else the
\* call of getUserProgressFromDatabase.
FetchStart(h) ==
  LET cached == getCachedData(learningCache, now, userProgressKey(Guest))
  IN  IF cached # Null
      THEN [h EXCEPT !.pc = "respond", !.progress = cached,
                     !.outdated = inflight.entryOutdated]
      ELSE [h EXCEPT !.pc = "store",
                     !.progress = getUserProgressFromDatabase(now, Guest),
                     !.outdated = FALSE]

\* A handler that holds a computed progress it has yet to store sees it
\* outdated by an invalidation.
Outdate(h) == IF h.pc = "store" THEN [h EXCEPT !.outdated = TRUE] ELSE h

ReadStart ==
  /\ inflight.reader.pc = "idle"
  /\ inflight' = [inflight EXCEPT
                    !.reader = FetchStart([IdleHandler EXCEPT !.action = "progress"])]
  /\ UNCHANGED <<hubVars, loader, farm>>

\* fetchUserProgress after its await: setCachedData and return.
ReadStore ==
  /\ inflight.reader.pc = "store"
  /\ learningCache' = setCachedData(learningCache, now, userProgressKey(Guest),
                                    inflight.reader.progress)
  /\ inflight' = [inflight EXCEPT !.reader.pc = "respond",
                                  !.entryOutdated = inflight.reader.outdated]
  /\ UNCHANGED <<now, request, response, cacheBefore, loader, farm>>

ReadRespond ==
  /\ inflight.reader.pc = "respond"
  /\ inflight' = [inflight EXCEPT !.reader = IdleHandler]
  /\ UNCHANGED <<hubVars, loader, farm>>

\* POST up to await request.json().
WriteStart ==
  /\ inflight.writer.pc = "idle"
  /\ \E a \in WriteActions :
       inflight' = [inflight EXCEPT !.writer = [IdleHandler EXCEPT !.pc = "parsed",
                                                                   !.action = a]]
  /\ UNCHANGED <<hubVars, loader, farm>>

\* start-module and complete-module: the call of updateModuleProgress, whose
\* body runs to its end before the handler awaits it.
WriteUpdate ==
  /\ inflight.writer.pc = "parsed"
  /\ inflight.writer.action \in {"start-module", "complete-module"}
  /\ learningCache' =
       updateModuleProgress(learningCache, Guest, "nasa-data-intro",
                            inflight.writer.action = "complete-module").cache
  /\ inflight' = [inflight EXCEPT !.writer.pc = "award",
                                  !.reader = Outdate(inflight.reader),
                                  !.entryOutdated = FALSE]
  /\ UNCHANGED <<now, request, response, cacheBefore, loader, farm>>

\* The call of awardXP: after updateModuleProgress for start-module and
\* complete-module, at once for submit-assessment.
WriteAward ==
  /\ \/ inflight.writer.pc = "award"
     \/ inflight.writer.pc = "parsed" /\ inflight.writer.action = "submit-assessment"
  /\ learningCache' = awardXP(learningCache, Guest, 50).cache
  /\ inflight' = [inflight EXCEPT
                    !.writer.pc = IF inflight.writer.action = "start-module"
                                  THEN "respond" ELSE "fetch",
                    !.reader = Outdate(inflight.reader),
                    !.entryOutdated = FALSE]
  /\ UNCHANGED <<now, request, response, cacheBefore, loader, farm>>

\* complete-module and submit-assessment read the progress for their response.
WriteFetch ==
  /\ inflight.writer.pc = "fetch"
  /\ inflight' = [inflight EXCEPT !.writer = FetchStart(inflight.writer)]
  /\ UNCHANGED <<hubVars, loader, farm>>

WriteStore ==
  /\ inflight.writer.pc = "store"
  /\ learningCache' = setCachedData(learningCache, now, userProgressKey(Guest),
                                    inflight.writer.progress)
  /\ inflight' = [inflight EXCEPT !.writer.pc = "respond",
                                  !.entryOutdated = inflight.writer.outdated]
  /\ UNCHANGED <<now, request, response, cacheBefore, loader, farm>>

WriteRespond ==
  /\ inflight.writer.pc = "respond"
  /\ inflight' = [inflight EXCEPT !.writer = IdleHandler]
  /\ UNCHANGED <<hubVars, loader, farm>>

\* The clock moves between any two steps.
TickInterleaved ==
  /\ TicksTaken(now) < MaxTicks
  /\ \E d \in TickSteps : now' = now + d
  /\ UNCHANGED <<learningCache, request, response, cacheBefore, inflight, loader, farm>>

NextInterleaved ==
  \/ ReadStart \/ ReadStore \/ ReadRespond
  \/ WriteStart \/ WriteUpdate \/ WriteAward \/ WriteFetch \/ WriteStore \/ WriteRespond
  \/ TickInterleaved

SpecInterleaved == InitInterleaved /\ [][NextInterleaved]_vars

-----------------------------------------------------------------------------
(* Official NASA 3D resource loader (src/lib/official-nasa-3d-loader.ts).  *)
(* Asset names and missions are sequences of characters, because           *)
(* findAssetByName compares them by lower-cased substring.                 *)

baseUrl == "https://raw.githubusercontent.com/nasa/NASA-3D-Resources/main"

earthScienceSatellites ==
  << [ name |-> <<"T", "e", "r", "r", "a", " ", "S", "a", "t", "e", "l", "l", "i", "t", "e">>,
       type |-> "satellite",
       mission |-> <<"T", "e", "r", "r", "a", "/", "M", "O", "D", "I", "S">>,
       fileUrl |-> baseUrl \o "/3D Models/Terra/terra.obj",
       organization |-> "NASA GSFC" ],
     [ name |-> <<"A", "q", "u", "a", " ", "S", "a", "t", "e", "l", "l", "i", "t", "e">>,
       type |-> "satellite",
       mission |-> <<"A", "q", "u", "a", "/", "M", "O", "D", "I", "S">>,
       fileUrl |-> baseUrl \o "/3D Models/Aqua/aqua.obj",
       organization |-> "NASA GSFC" ],
     [ name |-> <<"S", "M", "A", "P", " ", "O", "b", "s", "e", "r", "v", "a", "t", "o", "r", "y">>,
       type |-> "satellite",
       mission |-> <<"S", "M", "A", "P">>,
       fileUrl |-> baseUrl \o "/3D Models/SMAP/smap.obj",
       organization |-> "NASA JPL" ],
     [ name |-> <<"L", "a", "n", "d", "s", "a", "t", " ", "8">>,
       type |-> "satellite",
       mission |-> <<"L", "a", "n", "d", "s", "a", "t">>,
       fileUrl |-> baseUrl \o "/3D Models/Landsat/landsat8.obj",
       organization |-> "NASA GSFC" ],
     [ name |-> <<"G", "P", "M", " ", "C", "o", "r", "e", " ", "O", "b", "s", "e", "r", "v", "a", "t", "o", "r", "y">>,
       type |-> "satellite",
       mission |-> <<"G", "P", "M">>,
       fileUrl |-> baseUrl \o "/3D Models/GPM/gpm.obj",
       organization |-> "NASA GSFC" ] >>

earthTextures ==
  << [ name |-> <<"E", "a", "r", "t", "h", " ", "B", "l", "u", "e", " ", "M", "a", "r", "b", "l", "e">>,
       type |-> "texture",
       mission |-> <<"E", "a", "r", "t", "h", " ", "S", "c", "i", "e", "n", "c", "e">>,
       fileUrl |-> baseUrl \o "/Textures/Earth/earth_bluemarble.jpg",
       organization |-> "NASA GSFC" ],
     [ name |-> <<"E", "a", "r", "t", "h", " ", "N", "i", "g", "h", "t", " ", "L", "i", "g", "h", "t", "s">>,
       type |-> "texture",
       mission |-> <<"E", "a", "r", "t", "h", " ", "S", "c", "i", "e", "n", "c", "e">>,
       fileUrl |-> baseUrl \o "/Textures/Earth/earth_nightlights.jpg",
       organization |-> "NASA GSFC" ],
     [ name |-> <<"A", "g", "r", "i", "c", "u", "l", "t", "u", "r", "a", "l", " ", "V", "e", "g", "e", "t", "a", "t", "i", "o", "n", " ", "M", "a", "p">>,
       type |-> "texture",
       mission |-> <<"E", "a", "r", "t", "h", " ", "S", "c", "i", "e", "n", "c", "e">>,
       fileUrl |-> baseUrl \o "/Textures/Earth/earth_vegetation.jpg",
       organization |-> "NASA GSFC" ] >>

UpperCase ==
  <<"A", "B", "C", "D", "E", "F", "G", "H", "I", "J", "K", "L", "M",
    "N", "O", "P", "Q", "R", "S", "T", "U", "V", "W", "X", "Y", "Z">>

LowerCase ==
  <<"a", "b", "c", "d", "e", "f", "g", "h", "i", "j", "k", "l", "m",
    "n", "o", "p", "q", "r", "s", "t", "u", "v", "w", "x", "y", "z">>

toLowerCase(s) ==
  [i \in 1..Len(s) |->
     IF \E k \in 1..26 : UpperCase[k] = s[i]
     THEN LowerCase[CHOOSE k \in 1..26 : UpperCase[k] = s[i]]
     ELSE s[i]]

\* String.prototype.includes
includes(s, part) ==
  \E i \in 0..(Len(s) - Len(part)) : SubSeq(s, i + 1, i + Len(part)) = part

AssetMatches(asset, name) ==
  \/ includes(toLowerCase(asset.name), toLowerCase(name))
  \/ includes(toLowerCase(asset.mission), toLowerCase(name))

\* The first asset of the two lists that matches, or Null (undefined).
findAssetByName(name) ==
  LET allAssets == earthScienceSatellites \o earthTextures
  IN  IF \E i \in 1..Len(allAssets) : AssetMatches(allAssets[i], name)
      THEN allAssets[CHOOSE i \in 1..Len(allAssets) :
                       /\ AssetMatches(allAssets[i], name)
                       /\ \A j \in 1..(i - 1) : ~AssetMatches(allAssets[j], name)]
      ELSE Null

generateSatelliteGeometry(mission) ==
  CASE mission = <<"T", "e", "r", "r", "a", "/", "M", "O", "D", "I", "S">> -> [shape |-> "box", color |-> "#4169E1"]
    [] mission = <<"A", "q", "u", "a", "/", "M", "O", "D", "I", "S">> -> [shape |-> "box", color |-> "#1E90FF"]
    [] mission = <<"S", "M", "A", "P">> -> [shape |-> "cylinder", color |-> "#32CD32"]
    [] mission = <<"L", "a", "n", "d", "s", "a", "t">> -> [shape |-> "box", color |-> "#FF6347"]
    [] mission = <<"G", "P", "M">> -> [shape |-> "sphere", color |-> "#FFD700"]
    [] OTHER -> [shape |-> "box", color |-> "#4169E1"]

createFallbackModel(asset) ==
  [ name |-> asset.name, fallback |-> TRUE, mission |-> asset.mission,
    organization |-> asset.organization,
    geometry |-> generateSatelliteGeometry(asset.mission) ]

\* What loadAsset resolves to when the load succeeds: the image for a
\* texture, the model metadata for a satellite.
LoadedValue(asset) ==
  IF asset.type = "texture"
  THEN [src |-> asset.fileUrl, crossOrigin |-> "anonymous"]
  ELSE [url |-> asset.fileUrl, loaded |-> TRUE, vertices |-> 1000, faces |-> 500,
        format |-> "obj"]

\* What loadAsset rejects with when the load fails.
LoadError(asset) ==
  IF asset.type = "texture"
  THEN [message |-> "Failed to load texture: " \o asset.fileUrl]
  ELSE [message |-> "Failed to load 3D model: " \o asset.fileUrl]

\* The names the model's callers ask for: two spellings of one satellite, a
\* texture and a name no asset matches.
AssetNames ==
  { <<"T", "e", "r", "r", "a", " ", "S", "a", "t", "e", "l", "l", "i", "t", "e">>,
    <<"t", "e", "r", "r", "a">>,
    <<"E", "a", "r", "t", "h", " ", "B", "l", "u", "e", " ", "M", "a", "r", "b", "l", "e">>,
    <<"H", "u", "b", "b", "l", "e">> }

\* findAssetByName for each of these names, looked up once.
AssetFoundByName == [name \in AssetNames |-> findAssetByName(name)]

-----------------------------------------------------------------------------
(* The loader's state machine.  loader holds the two maps of the class,    *)
(* the promises loadAsset returned and the calls of loadNASA3DModel made   *)
(* so far.  A promise is named by the number of the call that created it.  *)
(* A call is awaiting (it started the load and waits at its await), joined *)
(* (it was handed the promise of a load in flight), returned or thrown.    *)
(*                                                                         *)
(* The continuation of the call that started a load is the first reaction  *)
(* registered on loadPromise, so it runs as soon as loadPromise settles,   *)
(* before any other call can be made: LoadSettles is the settlement        *)
(* together with that continuation.  Callers that joined see the outcome   *)
(* afterwards.                                                             *)

EmptyMap == [k \in {} |-> Null]

MapSet(map, key, value) ==
  [k \in DOMAIN map \cup {key} |-> IF k = key THEN value ELSE map[k]]

MapDelete(map, key) == [k \in DOMAIN map \ {key} |-> map[k]]

InitLoader ==
  /\ learningCache = EmptyCache
  /\ now = StartTime
  /\ request = Null
  /\ response = Null
  /\ cacheBefore = EmptyCache
  /\ inflight = Null
  /\ loader = [loadedAssets |-> EmptyMap, loadingPromises |-> EmptyMap,
               promises |-> EmptyMap, calls |-> <<>>]
  /\ farm = Null

\* loadNASA3DModel up to its await or its return.
loadNASA3DModel(state, assetName) ==
  LET id == Len(state.calls) + 1
      asset == AssetFoundByName[assetName]
      call(pc, promise, value) ==
        [assetName |-> assetName, pc |-> pc, promise |-> promise, value |-> value]
  IN  IF assetName \in DOMAIN state.loadedAssets
      THEN [state EXCEPT !.calls = Append(@, call("returned", 0,
                                                  state.loadedAssets[assetName]))]
      ELSE IF assetName \in DOMAIN state.loadingPromises
      THEN [state EXCEPT !.calls = Append(@, call("joined",
                                                  state.loadingPromises[assetName], Null))]
      ELSE IF asset = Null
      THEN [state EXCEPT !.calls = Append(@, call("thrown", 0,
                                  [message |-> "NASA 3D asset not found"]))]
      ELSE [state EXCEPT
              !.promises = MapSet(@, id, [assetName |-> assetName, state |-> "pending",
                                          value |-> Null]),
              !.loadingPromises = MapSet(@, assetName, id),
              !.calls = Append(@, call("awaiting", id, Null))]

\* Mutant: the catch branch leaves the entry of the failed load in place.
Resume_FailureKeepsPromise(state, id, succeeded) ==
  LET assetName == state.calls[id].assetName
      asset == AssetFoundByName[assetName]
  IN  IF succeeded
      THEN [state EXCEPT
              !.promises[id].state = "fulfilled",
              !.promises[id].value = LoadedValue(asset),
              !.loadedAssets = MapSet(@, assetName, LoadedValue(asset)),
              !.loadingPromises = MapDelete(@, assetName),
              !.calls[id].pc = "returned",
              !.calls[id].value = LoadedValue(asset)]
      ELSE [state EXCEPT
              !.promises[id].state = "rejected",
              !.promises[id].value = LoadError(asset),
              !.calls[id].pc = "returned",
              !.calls[id].value = createFallbackModel(asset)]

\* loadNASA3DModel after its await: the try branch when the load succeeded,
\* the catch branch when it failed.
Resume(state, id, succeeded) ==
  LET assetName == state.calls[id].assetName
      asset == AssetFoundByName[assetName]
  IN  IF succeeded
      THEN [state EXCEPT
              !.promises[id].state = "fulfilled",
              !.promises[id].value = LoadedValue(asset),
              !.loadedAssets = MapSet(@, assetName, LoadedValue(asset)),
              !.loadingPromises = MapDelete(@, assetName),
              !.calls[id].pc = "returned",
              !.calls[id].value = LoadedValue(asset)]
      ELSE [state EXCEPT
              !.promises[id].state = "rejected",
              !.promises[id].value = LoadError(asset),
              !.loadingPromises = MapDelete(@, assetName),
              !.calls[id].pc = "returned",
              !.calls[id].value = createFallbackModel(asset)]

isAssetLoaded(state, name) == name \in DOMAIN state.loadedAssets

CallLoad ==
  /\ Len(loader.calls) < MaxCalls
  /\ \E assetName \in AssetNames : loader' = loadNASA3DModel(loader, assetName)
  /\ UNCHANGED <<hubVars, inflight, farm>>

LoadSettles ==
  /\ \E id \in DOMAIN loader.calls, succeeded \in BOOLEAN :
       /\ loader.calls[id].pc = "awaiting"
       /\ loader' = Resume(loader, id, succeeded)
  /\ UNCHANGED <<hubVars, inflight, farm>>

\* A caller that was handed loadPromise itself gets its outcome: the loaded
\* asset, or the rejection.
JoinerSettles ==
  /\ \E id \in DOMAIN loader.calls :
       LET call == loader.calls[id]
           promise == loader.promises[call.promise]
       IN  /\ call.pc = "joined"
           /\ promise.state # "pending"
           /\ loader' =
                [loader EXCEPT
                   !.calls[id].pc = IF promise.state = "rejected"
                                    THEN "thrown" ELSE "returned",
                   !.calls[id].value = promise.value]
  /\ UNCHANGED <<hubVars, inflight, farm>>

NextLoader == CallLoad \/ LoadSettles \/ JoinerSettles

SpecLoader == InitLoader /\ [][NextLoader]_vars

-----------------------------------------------------------------------------
(* Farm simulation page (src/app/farm/simulation/page.tsx): gameState, the  *)
(* game loop, the player actions and the game mode.  Soil moisture is in    *)
(* hundredths, so 0.15 is 15.  nasaData is Null while no data has arrived;  *)
(* a comparison with a reading that is missing is false, as it is with      *)
(* undefined.                                                               *)

actions ==
  << [type |-> "irrigate", cost |-> 50],
     [type |-> "fertilize", cost |-> 100],
     [type |-> "plant", cost |-> 200],
     [type |-> "harvest", cost |-> 75] >>

PlayerActions == { actions[i] : i \in 1..Len(actions) }

GameModes == {"casual", "challenge", "educational", "professional", "simulation"}

\* The modes chosen in a run: one for each branch of handleGameModeChange.
ChosenModes == {"casual", "challenge", "professional"}

Weathers == <<"sunny", "cloudy", "rainy">>

InitialGameState ==
  [ score |-> 0, money |-> 1000, cropHealth |-> 70, waterReserves |-> 500,
    season |-> "Spring", day |-> 1, weather |-> "sunny", gameMode |-> "casual" ]

\* nasaData?.data?.soilMoisture?.current < hundredths, and the like.
SoilMoistureBelow(nasaData, hundredths) ==
  nasaData # Null /\ nasaData.soilMoisture < hundredths

SoilMoistureAbove(nasaData, hundredths) ==
  nasaData # Null /\ nasaData.soilMoisture > hundredths

\* One run of the interval callback.  weather is what the two draws of
\* Math.random() leave: the previous weather, or one of the three.  Nothing
\* reads the weather but the display, and a run draws 'sunny' and 'rainy'.
gameLoopTick(prev, gameSpeed, nasaData, weather) ==
  LET newDay == prev.day + (IF gameSpeed = "fast" THEN 3 ELSE 1)
      newSeason == IF newDay > 90 THEN "Fall"
                   ELSE IF newDay > 60 THEN "Summer"
                   ELSE IF newDay > 30 THEN "Spring"
                   ELSE "Winter"
      afterDrought == IF SoilMoistureBelow(nasaData, 15)
                      THEN Max(0, prev.cropHealth - 2) ELSE prev.cropHealth
      afterHeat == IF nasaData # Null /\ nasaData.temperature > 35
                   THEN Max(0, afterDrought - 3) ELSE afterDrought
      afterRain == IF nasaData # Null /\ nasaData.precipitation > 1
                   THEN Min(100, afterHeat + 1) ELSE afterHeat
  IN  [prev EXCEPT !.day = newDay, !.season = newSeason,
                   !.cropHealth = afterRain, !.weather = weather]

\* Mutant: the handler does not look at the money; it pays, and an
\* irrigation draws the water.
handleExecuteAction_NoMoneyCheck(gameState, nasaData, action) ==
  LET paid == [gameState EXCEPT !.money = gameState.money - action.cost]
  IN  CASE action.type = "irrigate" ->
             [paid EXCEPT !.waterReserves = Max(0, gameState.waterReserves - 50)]
        [] OTHER -> paid

\* The gameState handleExecuteAction leaves; the one it found when it
\* refuses the action with an alert.
handleExecuteAction(gameState, nasaData, action) ==
  LET prev == gameState
      paid == [prev EXCEPT !.money = prev.money - action.cost]
      harvestYield == prev.cropHealth * 2
  IN  IF gameState.money < action.cost
      THEN gameState
      ELSE CASE action.type = "irrigate" ->
                  LET watered == [paid EXCEPT
                                    !.waterReserves = Max(0, prev.waterReserves - 50)]
                  IN  IF SoilMoistureBelow(nasaData, 25)
                      THEN [watered EXCEPT !.cropHealth = Min(100, prev.cropHealth + 15),
                                           !.score = prev.score + 10]
                      ELSE watered
             [] action.type = "fertilize" ->
                  IF SoilMoistureAbove(nasaData, 20)
                  THEN [paid EXCEPT !.cropHealth = Min(100, prev.cropHealth + 10),
                                    !.score = prev.score + 15]
                  ELSE paid
             [] action.type = "plant" ->
                  IF prev.season = "Spring" /\ SoilMoistureAbove(nasaData, 20)
                  THEN [paid EXCEPT !.cropHealth = 60, !.score = prev.score + 5]
                  ELSE paid
             [] action.type = "harvest" ->
                  IF prev.cropHealth > 50
                  THEN [paid EXCEPT !.money = prev.money + harvestYield,
                                    !.score = prev.score + (harvestYield \div 5),
                                    !.cropHealth = 0]
                  ELSE paid

\* Mutant: the mode change keeps the score and the day of the game.
handleGameModeChange_KeepsScoreAndDay(prev, mode) ==
  [prev EXCEPT
     !.gameMode = mode,
     !.money = IF mode = "casual" THEN 2000
               ELSE IF mode = "challenge" THEN 1000 ELSE 1500,
     !.cropHealth = IF mode = "casual" THEN 80
                    ELSE IF mode = "challenge" THEN 70 ELSE 75]

handleGameModeChange(prev, mode) ==
  [prev EXCEPT
     !.gameMode = mode, !.score = 0, !.day = 1,
     !.money = IF mode = "casual" THEN 2000
               ELSE IF mode = "challenge" THEN 1000 ELSE 1500,
     !.cropHealth = IF mode = "casual" THEN 80
                    ELSE IF mode = "challenge" THEN 70 ELSE 75]

-----------------------------------------------------------------------------
(* The page's state machine.  farm.last records the handler that ran last, *)
(* what it was called with and the gameSpeed it found; farm.executed counts *)
(* the actions that were paid for.  The satellite data is fixed from the   *)
(* start: none, or a reading that arrived with a combined NDVI of 0.70,    *)
(* which leaves cropHealth at its initial 70.  The interval of the game    *)
(* loop exists exactly while gameSpeed is not 'paused': the effect that    *)
(* creates it is re-run with every change of gameSpeed.                    *)

\* No reading, a dry and hot one, a moist and rainy one.
SatelliteData ==
  { Null,
    [soilMoisture |-> 10, temperature |-> 36, precipitation |-> 0],
    [soilMoisture |-> 22, temperature |-> 22, precipitation |-> 2] }

InitFarm ==
  /\ learningCache = EmptyCache
  /\ now = StartTime
  /\ request = Null
  /\ response = Null
  /\ cacheBefore = EmptyCache
  /\ inflight = Null
  /\ loader = Null
  /\ farm \in { [gameState |-> InitialGameState, gameSpeed |-> "normal",
                 nasaData |-> d, executed |-> 0, last |-> Null] :
                d \in SatelliteData }

Ran(handler, argument) ==
  [handler |-> handler, argument |-> argument, gameSpeed |-> farm.gameSpeed]

GameLoopTick ==
  /\ farm.gameSpeed # "paused"
  /\ farm.gameState.day < MaxDay
  /\ \E weather \in {farm.gameState.weather, Weathers[1], Weathers[3]} :
       farm' = [farm EXCEPT
                  !.gameState = gameLoopTick(farm.gameState, farm.gameSpeed,
                                             farm.nasaData, weather),
                  !.last = Ran("tick", "")]
  /\ UNCHANGED <<hubVars, inflight, loader>>

\* A click that applies the selected action; one the handler refuses is
\* not counted.
ExecuteAction ==
  /\ \E action \in PlayerActions :
       /\ farm.gameState.money >= action.cost => farm.executed < MaxActions
       /\ farm' = [farm EXCEPT
                     !.gameState = handleExecuteAction(farm.gameState,
                                                       farm.nasaData, action),
                     !.executed = IF farm.gameState.money >= action.cost
                                  THEN @ + 1 ELSE @,
                     !.last = Ran("execute", action)]
  /\ UNCHANGED <<hubVars, inflight, loader>>

ChangeGameMode ==
  /\ \E mode \in ChosenModes :
       farm' = [farm EXCEPT
                  !.gameState = handleGameModeChange(farm.gameState, mode),
                  !.gameSpeed = "paused",
                  !.last = Ran("mode", mode)]
  /\ UNCHANGED <<hubVars, inflight, loader>>

\* The play / pause button.
TogglePause ==
  /\ farm' = [farm EXCEPT
                !.gameSpeed = IF farm.gameSpeed = "paused" THEN "normal" ELSE "paused",
                !.last = Ran("pause", "")]
  /\ UNCHANGED <<hubVars, inflight, loader>>

NextFarm == GameLoopTick \/ ExecuteAction \/ ChangeGameMode \/ TogglePause

SpecFarm == InitFarm /\ [][NextFarm]_vars

-----------------------------------------------------------------------------
(* Vocabulary of the properties *)

\* The userId the handler works with: the query parameter, or 'guest'.
Requester == IF request.userId # <<>> THEN request.userId ELSE Guest

Answered == request # Null

IsGet(action) ==
  /\ Answered
  /\ request.method = "GET"
  /\ request.action = action

IsPost(action) ==
  /\ Answered
  /\ request.method = "POST"
  /\ request.body # Null
  /\ request.body.action = action

Succeeded == response.status = 200

-----------------------------------------------------------------------------
(* C1 *)

\* C1: every answered submit-assessment that carried assessmentId and answers
\* reports passed = (score >= 70), and xpEarned = 200 when passed, else 100.
C1_SubmitAssessmentXpFollowsPassed ==
  (IsPost("submit-assessment") /\ Succeeded) =>
    /\ response.data.passed = (response.data.score >= 70)
    /\ response.data.xpEarned = (IF response.data.passed THEN 200 ELSE 100)

-----------------------------------------------------------------------------
(* C2 *)

\* C2: whatever requests came before, GET action=modules with level=all answers
\* with exactly the 5 seeded modules and totalModules = 5.
C2_ModulesAllReturnsFiveSeeded ==
  (IsGet("modules") /\ request.level = "all") =>
    /\ Succeeded
    /\ response.data.modules = Arr(baseModules)
    /\ response.data.totalModules = 5

-----------------------------------------------------------------------------
(* C3 *)

IsMutation ==
  IsPost("start-module") \/ IsPost("complete-module") \/ IsPost("submit-assessment")

\* C3 as stated: once a mutating action has answered for user U, the cache
\* holds no fresh entry for U's progress.
C3_NoFreshProgressAfterMutation ==
  (IsMutation /\ Succeeded) =>
    ~IsFresh(learningCache, now, userProgressKey(Requester))

\* C3 as amended: after start-module the cache holds no entry for U's progress;
\* after complete-module or submit-assessment it holds the entry the handler's
\* own read re-filled after the invalidation (stamped with the request's time,
\* holding the profile derived at that time), so no entry stored before the
\* mutation survives it.
C3_ProgressEntryNeverSurvivesMutation ==
  /\ (IsPost("start-module") /\ Succeeded) =>
       userProgressKey(Requester) \notin DOMAIN learningCache
  /\ ((IsPost("complete-module") \/ IsPost("submit-assessment")) /\ Succeeded) =>
       /\ userProgressKey(Requester) \in DOMAIN learningCache
       /\ learningCache[userProgressKey(Requester)] =
            [data |-> getUserProgressFromDatabase(now, Requester), timestamp |-> now]

\* A submit-assessment answered while the requester's progress entry, stored
\* at an earlier instant, was still fresh: the entry has been replaced.
C3_Witness ==
  /\ IsPost("submit-assessment")
  /\ Succeeded
  /\ IsFresh(cacheBefore, now, userProgressKey(Requester))
  /\ cacheBefore[userProgressKey(Requester)].timestamp < now
  /\ learningCache[userProgressKey(Requester)].timestamp = now

-----------------------------------------------------------------------------
(* C4 *)

\* C4: a start-module POST that carries a moduleId answers success with
\* xpAwarded = 50, and when it answers the requester's user_progress entry is
\* absent from the cache, whatever the cache held when the request arrived.
C4_StartModuleAwardsFiftyAndInvalidates ==
  (IsPost("start-module") /\ request.body.moduleId # "") =>
    /\ Succeeded
    /\ response.success
    /\ response.data.xpAwarded = 50
    /\ userProgressKey(Requester) \notin DOMAIN learningCache

\* A start-module answered on a cache that held a fresh progress entry of the
\* requester.
C4_Witness ==
  /\ IsPost("start-module")
  /\ Succeeded
  /\ IsFresh(cacheBefore, now, userProgressKey(Requester))
  /\ userProgressKey(Requester) \notin DOMAIN learningCache

-----------------------------------------------------------------------------
(* C5 *)

EffectiveUserIds == { IF u # <<>> THEN u ELSE Guest : u \in UserIdParams }

\* C5: two derivations of a user's profile at any two times agree in every
\* field: the profile an earlier derivation left in the cache equals the
\* profile derived now.
C5_ProfileDerivationDeterministic ==
  \A u \in EffectiveUserIds :
    userProgressKey(u) \in DOMAIN learningCache =>
      learningCache[userProgressKey(u)].data = getUserProgressFromDatabase(now, u)

-----------------------------------------------------------------------------
(* C6 *)

\* Every key a request of the model can build.
AllKeys ==
  { modulesKey(l, u) : l \in LevelParams, u \in EffectiveUserIds }
  \cup { userProgressKey(u) : u \in EffectiveUserIds }
  \cup { assessmentsKey(u) : u \in EffectiveUserIds }

\* C6: a read of key k returns the stored value exactly when an entry for k
\* exists and is younger than 30 minutes (1,800,000 ms); from an age of exactly
\* 30 minutes on, the read is Null like the read of a key never stored.
C6_ReadReturnsValueIffYoungerThanTtl ==
  \A k \in AllKeys :
    LET young == k \in DOMAIN learningCache
                 /\ now - learningCache[k].timestamp < 1800000
        read == getCachedData(learningCache, now, k)
    IN  /\ young => (read = learningCache[k].data /\ read # Null)
        /\ ~young => read = Null

\* An entry that is exactly 30 minutes old and reads as absent, beside one
\* that is younger and reads as stored.
C6_Witness ==
  /\ \E k \in DOMAIN learningCache :
       /\ now - learningCache[k].timestamp = 1800000
       /\ getCachedData(learningCache, now, k) = Null
  /\ \E k \in DOMAIN learningCache :
       /\ now - learningCache[k].timestamp < 1800000
       /\ getCachedData(learningCache, now, k) = learningCache[k].data

-----------------------------------------------------------------------------
(* C7 *)

\* Values the handlers store.
SampleValues ==
  { Arr(<<>>), Arr(baseModules), generateDynamicAssessments(Guest) }
  \cup { getUserProgressFromDatabase(now, u) : u \in EffectiveUserIds }

\* C7: in every reachable cache (each is the cache of a state between two
\* requests), for any key and value, the read that follows set(k, v) at the
\* same instant returns v; and the profile that module-content reads back right
\* after storing it is the stored one.
C7_SetThenGetReturnsValue ==
  /\ Idle =>
       \A k \in AllKeys : \A v \in SampleValues :
         getCachedData(setCachedData(learningCache, now, k, v), now, k) = v
  /\ (IsGet("module-content") /\ Succeeded) =>
       response.data.userProgress = learningCache[userProgressKey(Requester)].data

\* module-content answered after storing a progress entry over an expired one
\* and reading it back in the same request.
C7_Witness ==
  /\ IsGet("module-content")
  /\ Succeeded
  /\ userProgressKey(Requester) \in DOMAIN cacheBefore
  /\ ~IsFresh(cacheBefore, now, userProgressKey(Requester))
  /\ learningCache[userProgressKey(Requester)].timestamp = now
  /\ response.data.userProgress = getUserProgressFromDatabase(now, Requester)

-----------------------------------------------------------------------------
(* C8 *)

\* The keys start-module invalidates for the requester.
InvalidatedByStart == { userProgressKey(Requester), "modules_all_" \o Str(Requester) }

\* C8: after a key is invalidated its read is Null although the entry it
\* replaced was within its TTL, and the read stays Null until the key is set
\* again: a key absent from the cache becomes present only in a handler step
\* that stores it with the current time.
C8_InvalidatedKeyAbsentUntilSet ==
  /\ [](  (IsPost("start-module") /\ Succeeded) =>
            \A k \in InvalidatedByStart :
              getCachedData(learningCache, now, k) = Null )
  /\ [][ \A k \in AllKeys :
           k \notin DOMAIN learningCache =>
             \/ getCachedData(learningCache', now', k) = Null
             \/ /\ request' # Null
                /\ request = Null
                /\ learningCache'[k].timestamp = now' ]_vars

\* start-module answered on a cache whose entries for both invalidated keys
\* were within their TTL.
C8_Witness ==
  /\ IsPost("start-module")
  /\ Succeeded
  /\ \A k \in InvalidatedByStart : IsFresh(cacheBefore, now, k)
  /\ \A k \in InvalidatedByStart : getCachedData(learningCache, now, k) = Null

-----------------------------------------------------------------------------
(* C9 *)

\* deriveProfile(userId): the profile derived from the userId alone.
DerivedNow == getUserProgressFromDatabase(now, Requester)

\* C9: awards never accumulate: every progress response reports the level and
\* currentXP derived from the userId, and so do newXP of complete-module and
\* newTotalXP of submit-assessment, whatever was awarded before.
C9_AwardedXpNeverAccumulates ==
  /\ (IsGet("progress") /\ Succeeded) =>
       /\ response.data.level = DerivedNow.level
       /\ response.data.currentXP = DerivedNow.currentXP
  /\ (IsPost("complete-module") /\ Succeeded) =>
       response.data.newXP = DerivedNow.currentXP
  /\ (IsPost("submit-assessment") /\ Succeeded) =>
       response.data.newTotalXP = DerivedNow.currentXP

\* A passed submit-assessment: 200 XP awarded, and newTotalXP is the derived
\* currentXP all the same.
C9_Witness ==
  /\ IsPost("submit-assessment")
  /\ Succeeded
  /\ response.data.xpEarned = 200
  /\ response.data.newTotalXP = DerivedNow.currentXP
  /\ IsFresh(cacheBefore, now, userProgressKey(Requester))

-----------------------------------------------------------------------------
(* C10 *)

\* C10 as stated: a request answered with HTTP 400 or 404 leaves the cache
\* exactly as it found it.
C10_ErrorLeavesCacheUntouched ==
  (Answered /\ response.status \in {400, 404}) => learningCache = cacheBefore

\* C10 as amended: a request answered with HTTP 400 leaves the cache exactly
\* as it found it.  A request answered with HTTP 404 has fetched the module
\* list first: it leaves every entry but modules_all_<userId> as it found it,
\* and leaves that entry untouched when it was fresh, else filled with the
\* generator's list and the current time.
C10_OnlyNotFoundFillsModuleList ==
  /\ (Answered /\ response.status = 400) => learningCache = cacheBefore
  /\ (Answered /\ response.status = 404) =>
       LET key == "modules_all_" \o Str(Requester)
       IN  /\ DOMAIN learningCache = DOMAIN cacheBefore \cup {key}
           /\ \A k \in DOMAIN learningCache \ {key} : learningCache[k] = cacheBefore[k]
           /\ learningCache[key] =
                IF IsFresh(cacheBefore, now, key)
                THEN cacheBefore[key]
                ELSE [data |-> Arr(baseModules), timestamp |-> now]

\* A 404 that added the module list to a cache that held other entries.
C10_Witness ==
  /\ Answered
  /\ response.status = 404
  /\ cacheBefore # EmptyCache
  /\ ("modules_all_" \o Str(Requester)) \notin DOMAIN cacheBefore
  /\ ("modules_all_" \o Str(Requester)) \in DOMAIN learningCache

-----------------------------------------------------------------------------
(* C11 *)

GetActions == {"modules", "progress", "module-content", "assessments", "leaderboard"}

PostActions == {"start-module", "complete-module", "submit-assessment"}

UnrecognizedGet ==
  Answered /\ request.method = "GET" /\ request.action \notin GetActions

UnrecognizedPost ==
  /\ Answered
  /\ request.method = "POST"
  /\ request.body # Null
  /\ request.body.action \notin PostActions

\* C11 as stated: an unrecognized or missing action is answered with HTTP 400
\* and error 'Invalid action', by GET and by POST alike.
C11_UnknownActionIsInvalidAction ==
  (UnrecognizedGet \/ UnrecognizedPost) =>
    /\ response.status = 400
    /\ response.error = "Invalid action"

\* C11 as amended: an unrecognized or missing action is answered with HTTP 400
\* by both handlers; the error is 'Invalid action' for GET and 'Invalid POST
\* action' for POST.
C11_UnknownActionIsRejectedPerMethod ==
  /\ UnrecognizedGet =>
       response = [status |-> 400, error |-> "Invalid action"]
  /\ UnrecognizedPost =>
       response = [status |-> 400, error |-> "Invalid POST action"]

\* A POST whose body names no action, answered with 'Invalid POST action'.
C11_Witness ==
  /\ UnrecognizedPost
  /\ request.body.action = ""
  /\ response.status = 400
  /\ response.error = "Invalid POST action"

-----------------------------------------------------------------------------
(* C12 *)

\* The request called a generator that threw.
Caught(message) ==
  Answered /\ "caught" \in DOMAIN request /\ message \in request.caught

GeneratorFailed ==
  Answered /\ "caught" \in DOMAIN request /\ request.caught # {}

KeptFromBefore(key) ==
  key \in DOMAIN learningCache =>
    key \in DOMAIN cacheBefore /\ learningCache[key] = cacheBefore[key]

-----------------------------------------------------------------------------
(* C13 *)

SeededModuleIds == { baseModules[i].id : i \in DOMAIN baseModules }

\* C13: module-content with a moduleId that is given but is not the id of a
\* seeded module is answered with 404 'Module not found', whatever the userId
\* and the cache hold.
C13_UnknownModuleIsNotFound ==
  (IsGet("module-content") /\ request.moduleId # ""
     /\ request.moduleId \notin SeededModuleIds) =>
    response = Err(404, "Module not found")

\* An unknown moduleId asked for while the user's module list is cached.
C13_Witness ==
  /\ IsGet("module-content")
  /\ request.moduleId = "no-such-module"
  /\ getCachedData(cacheBefore, now, modulesKey("all", Requester)) # Null
  /\ response.status = 404

-----------------------------------------------------------------------------
(* C14 *)

MissingModuleId ==
  /\ IsGet("module-content") \/ IsPost("start-module") \/ IsPost("complete-module")
  /\ IF request.method = "GET" THEN request.moduleId = ""
                               ELSE request.body.moduleId = ""

MissingAssessmentField ==
  /\ IsPost("submit-assessment")
  /\ request.body.assessmentId = "" \/ request.body.answers = Null

\* C14: module-content, start-module and complete-module without moduleId
\* are answered with 400 'Module ID required', and submit-assessment without
\* assessmentId or without answers with 400 'Assessment ID and answers
\* required'; none is answered with a success.
C14_MissingParameterIsBadRequest ==
  /\ MissingModuleId => response = Err(400, "Module ID required")
  /\ MissingAssessmentField =>
       response = Err(400, "Assessment ID and answers required")

\* submit-assessment that names its assessment but carries no answers.
C14_Witness ==
  /\ MissingAssessmentField
  /\ request.body.assessmentId # ""
  /\ response.status = 400
  /\ "success" \notin DOMAIN response

-----------------------------------------------------------------------------
(* C15 *)

SeededWithDifficulty(level) ==
  SelectSeq(baseModules, LAMBDA m : m.difficulty = level)

\* C15: GET action=modules with a level other than 'all' answers success with
\* exactly the seeded modules whose difficulty equals the level, which for a
\* level that is no difficulty is the empty list.
C15_ModulesFilteredByExactLevel ==
  (IsGet("modules") /\ request.level \notin {"", "all"}) =>
    /\ Succeeded
    /\ response.data.modules = Arr(SeededWithDifficulty(request.level))
    /\ response.data.totalModules = Len(SeededWithDifficulty(request.level))

-----------------------------------------------------------------------------
(* C16 *)

Derived == request # Null /\ request.method = "derive" /\ response # Null

\* The number lies outside the signed 32-bit range.
Beyond32Bits(x) == x.hi >= 32768 \/ x.hi < -32768

\* C16: for every userId the derived profile has level in 1..5, currentXP in
\* 500..1499 and streakDays in 1..30, also when the hash is negative or
\* beyond the 32-bit range; the empty userId gives level 1 and 500 XP.
C16_DerivedFieldsInRange ==
  Derived =>
    /\ response.progress.level \in 1..5
    /\ response.progress.currentXP \in 500..1499
    /\ response.progress.streakDays \in 1..30
    /\ request.userId = <<>> =>
         response.progress.level = 1 /\ response.progress.currentXP = 500

\* A profile derived from a hash that is negative and beyond 32 bits.
C16_Witness ==
  /\ Derived
  /\ response.userHash.hi < 0
  /\ Beyond32Bits(response.userHash)
  /\ response.progress.level \in 1..5

-----------------------------------------------------------------------------
(* C17 *)

Times31(x) ==
  LET lo == x.lo * 31
  IN  [hi |-> x.hi * 31 + (lo \div 65536), lo |-> lo % 65536]

\* The polynomial fold acc = acc * 31 + charCode, without any wrapping.
RECURSIVE PolynomialFrom(_, _)
PolynomialFrom(acc, s) ==
  IF s = <<>> THEN acc
  ELSE PolynomialFrom(Plus(Times31(acc), Num(CharCode(Head(s)))), Tail(s))

\* a << 5 equals a * 32 exactly for a in -2^26 .. 2^26 - 1.
ShiftIsExact(a) == a.hi >= -1024 /\ a.hi < 1024

\* The accumulator is in that range before every step of the reduce.
NeverWraps(userId) ==
  \A i \in 0..(Len(userId) - 1) :
    ShiftIsExact(HashFrom(Num(0), SubSeq(userId, 1, i)))

\* C17 as stated: the code's userHash equals the polynomial fold for every
\* userId.
C17_HashEqualsPolynomialFold ==
  Derived => response.userHash = PolynomialFrom(Num(0), request.userId)

\* C17 as amended: the code's userHash equals the polynomial fold exactly
\* when the accumulator stays within -2^26 .. 2^26 - 1 before every step,
\* which it does for every userId of at most 5 characters; otherwise the
\* two differ and agree only in their low 32 bits.
C17_HashEqualsFoldUnlessShiftWraps ==
  Derived =>
    LET fold == PolynomialFrom(Num(0), request.userId)
    IN  /\ (response.userHash = fold) <=> NeverWraps(request.userId)
        /\ Len(request.userId) <= 5 => NeverWraps(request.userId)
        /\ ToInt32(response.userHash) = ToInt32(fold)

\* A userId of 6 characters whose shift wraps: the hash is negative, the
\* fold is not.
C17_Witness ==
  /\ Derived
  /\ request.userId = <<"_", "g", "u", "e", "s", "t">>
  /\ ~NeverWraps(request.userId)
  /\ response.userHash.hi < 0
  /\ PolynomialFrom(Num(0), request.userId).hi > 0

-----------------------------------------------------------------------------
(* C18 *)

\* C18: with h = |userHash|, level = (h mod 5) + 1, currentXP = (h mod 1000)
\* + 500, totalXP = level * 1000, streakDays = (h mod 30) + 1, totalStudyTime
\* = (h mod 500) + 100, achievements are the first (h mod 3) + 1 entries of
\* the catalog and completedModules the first (h mod 3) entries of theirs,
\* so there is exactly one more achievement than completed modules.
C18_FieldsFollowTheirFormulas ==
  Derived =>
    LET h == Abs(response.userHash)
        p == response.progress
    IN  /\ p.level = Mod(h, 5) + 1
        /\ p.currentXP = Mod(h, 1000) + 500
        /\ p.totalXP = p.level * 1000
        /\ p.streakDays = Mod(h, 30) + 1
        /\ p.totalStudyTime = Mod(h, 500) + 100
        /\ p.achievements = Arr(SubSeq(allAchievements(now), 1, Mod(h, 3) + 1))
        /\ p.completedModules = Arr(SubSeq(possibleModules, 1, Mod(h, 3)))
        /\ p.achievements.length = p.completedModules.length + 1

\* A profile with two completed modules and all three achievements, derived
\* from a hash beyond 32 bits.
C18_Witness ==
  /\ Derived
  /\ Beyond32Bits(response.userHash)
  /\ response.progress.completedModules.length = 2
  /\ response.progress.achievements.length = 3

-----------------------------------------------------------------------------
(* C19 *)

\* C19: the leaderboard answer holds exactly one entry named 'You', at rank 3
\* with the requester's derived currentXP, and userRank = 3, whether the
\* profile was cached or derived for this request.
C19_LeaderboardPlacesYouThird ==
  IsGet("leaderboard") =>
    /\ Succeeded
    /\ LET board == response.data.leaderboard.items
       IN  /\ Cardinality({ i \in DOMAIN board : board[i].name = "You" }) = 1
           /\ board[3].name = "You"
           /\ board[3].rank = 3
           /\ board[3].xp = getUserProgressFromDatabase(now, Requester).currentXP
    /\ response.data.userRank = 3

\* A leaderboard request served from a cached profile of the requester.
C19_Witness ==
  /\ IsGet("leaderboard")
  /\ request.userId # <<>>
  /\ getCachedData(cacheBefore, now, userProgressKey(Requester)) # Null
  /\ response.data.leaderboard.items[3].xp = 1499

-----------------------------------------------------------------------------
(* C20 *)

CarriesSuccess == "success" \in DOMAIN response /\ response.success = TRUE

CarriesError == "error" \in DOMAIN response /\ response.error # ""

\* C20: every GET and POST request, an unparseable POST body included, is
\* answered with one response that carries either success = true or an error
\* string, never both and never neither.
C20_EveryRequestGetsOneOutcome ==
  Answered =>
    /\ response # Null
    /\ CarriesSuccess # CarriesError
    /\ CarriesSuccess <=> response.status = 200

\* A POST whose body cannot be parsed, answered with an error and no success.
C20_Witness ==
  /\ Answered
  /\ request.method = "POST"
  /\ request.body = Null
  /\ response.status = 500
  /\ CarriesError
  /\ ~CarriesSuccess

-----------------------------------------------------------------------------
(* C21 *)

\* C21: whatever the random source yields, the score a submit-assessment
\* returns lies in 60..100.
C21_ScoreWithinSixtyToHundred ==
  (IsPost("submit-assessment") /\ Succeeded) =>
    /\ response.data.score >= 60
    /\ response.data.score <= 100

\* A submit-assessment answered with the largest draw of the random source.
C21_Witness ==
  /\ IsPost("submit-assessment")
  /\ Succeeded
  /\ response.data.score = 99

-----------------------------------------------------------------------------
(* C22 *)

ReadActions == {"modules", "progress", "assessments"}

RequestLevel == IF request.level # "" THEN request.level ELSE "all"

\* The cache key a read action builds from its request.
ReadKey ==
  CASE request.action = "modules" -> modulesKey(RequestLevel, Requester)
    [] request.action = "progress" -> userProgressKey(Requester)
    [] request.action = "assessments" -> assessmentsKey(Requester)

\* What the generator of a read action yields for its request.
ReadGenerated ==
  CASE request.action = "modules" -> generateDynamicModules(RequestLevel, Requester)
    [] request.action = "progress" -> getUserProgressFromDatabase(now, Requester)
    [] request.action = "assessments" -> generateDynamicAssessments(Requester)

\* The value a read action puts in its response.
ReadReturned ==
  CASE request.action = "modules" -> response.data.modules
    [] request.action = "progress" -> response.data
    [] request.action = "assessments" -> response.data.assessments

IsRead == Answered /\ request.method = "GET" /\ request.action \in ReadActions

\* C22: a read action that finds no fresh entry under its key stores what its
\* generator yields under that key, stamped with the time of the request, and
\* returns it; one that finds a fresh entry returns the stored value and
\* leaves the whole cache, the entry's timestamp included, as it was.
C22_ReadFillsOnMissAndServesOnHit ==
  IsRead =>
    /\ Succeeded
    /\ IF IsFresh(cacheBefore, now, ReadKey)
       THEN /\ ReadReturned = cacheBefore[ReadKey].data
            /\ learningCache = cacheBefore
       ELSE /\ ReadReturned = ReadGenerated
            /\ DOMAIN learningCache = DOMAIN cacheBefore \cup {ReadKey}
            /\ learningCache[ReadKey] = [data |-> ReadGenerated, timestamp |-> now]
            /\ \A k \in DOMAIN cacheBefore \ {ReadKey} : learningCache[k] = cacheBefore[k]

\* A progress read served from an entry filled at an earlier instant: the
\* entry keeps the timestamp of its fill.
C22_Witness ==
  /\ IsRead
  /\ request.action = "progress"
  /\ IsFresh(cacheBefore, now, ReadKey)
  /\ cacheBefore[ReadKey].timestamp < now
  /\ learningCache[ReadKey].timestamp = cacheBefore[ReadKey].timestamp

-----------------------------------------------------------------------------
(* C23 *)

AtRest == inflight.reader.pc = "idle" /\ inflight.writer.pc = "idle"

\* C23: however a progress read and a write action for the same user take
\* turns at their awaits, once both have answered the cache holds no progress
\* entry whose value was computed before an invalidation of that entry.
C23_NoOutdatedProgressEntryAtRest ==
  (inflight # Null /\ AtRest /\ userProgressKey(Guest) \in DOMAIN learningCache) =>
    ~inflight.entryOutdated

-----------------------------------------------------------------------------
(* C24 *)

\* The levels fetchLearningModules is called with: the level parameter of
\* GET action=modules, and 'all' from module-content.
EffectiveLevels == { IF l # "" THEN l ELSE "all" : l \in LevelParams }

\* The seeded catalog filtered by a level.
CatalogFor(level) ==
  IF level = "all" THEN Arr(baseModules) ELSE Arr(SeededWithDifficulty(level))

\* C24: in every cache state, the entry under the key built from level L and
\* user U holds the catalog filtered by L, so that no request is served a list
\* that was cached for another level or user.
C24_ModuleEntryHoldsCatalogOfItsLevel ==
  \A level \in EffectiveLevels, userId \in EffectiveUserIds :
    modulesKey(level, userId) \in DOMAIN learningCache =>
      learningCache[modulesKey(level, userId)].data = CatalogFor(level)

-----------------------------------------------------------------------------
(* C25 *)

\* The keys under which the fetchers store entries for a user.
KeysOf(userId) ==
  { userProgressKey(userId), assessmentsKey(userId) }
    \cup { modulesKey(level, userId) : level \in EffectiveLevels }

\* The entries a write action of the requester has to leave alone: those of
\* every other user, the requester's level-filtered module lists and
\* assessments and, for submit-assessment, the requester's whole module list.
OutsideWriteFrame ==
  UNION { KeysOf(userId) : userId \in EffectiveUserIds \ {Requester} }
    \cup { modulesKey(level, Requester) : level \in EffectiveLevels \ {"all"} }
    \cup { assessmentsKey(Requester) }
    \cup (IF IsPost("submit-assessment") THEN { modulesKey("all", Requester) } ELSE {})

\* C25: a write action of user U leaves every entry of another user, and U's
\* level-filtered module entries and assessments entry, as it found them; only
\* user_progress_U and, for start-module and complete-module, modules_all_U
\* may go.
C25_WriteKeepsEntriesOutsideItsFrame ==
  IsMutation =>
    \A key \in OutsideWriteFrame :
      /\ key \in DOMAIN learningCache <=> key \in DOMAIN cacheBefore
      /\ key \in DOMAIN cacheBefore => learningCache[key] = cacheBefore[key]

-----------------------------------------------------------------------------
(* C26 *)

KnownAssetNames == { name \in AssetNames : findAssetByName(name) # Null }

\* The underlying load of a call's asset name failed: the promise the call
\* awaited or was handed is rejected.
LoadFailedFor(call) ==
  /\ call.promise # 0
  /\ loader.promises[call.promise].state = "rejected"

\* C26: no call of loadNASA3DModel for a known asset name ends in a
\* rejection, and every call whose load failed, the calls made while that
\* load was in flight included, returns the fallback model.
C26_KnownAssetNeverRejects ==
  loader # Null =>
    \A id \in DOMAIN loader.calls :
      LET call == loader.calls[id]
      IN  call.assetName \in KnownAssetNames =>
            /\ call.pc # "thrown"
            /\ (LoadFailedFor(call) /\ call.pc = "returned") =>
                 call.value = createFallbackModel(findAssetByName(call.assetName))

-----------------------------------------------------------------------------
(* C27 *)

\* The loads of an asset name that have not settled.
LoadsInFlight(name) ==
  { id \in DOMAIN loader.promises :
      /\ loader.promises[id].assetName = name
      /\ loader.promises[id].state = "pending" }

\* Every load of the name so far has failed.
OnlyFailedLoads(state, name) ==
  /\ \E id \in DOMAIN state.promises : state.promises[id].assetName = name
  /\ \A id \in DOMAIN state.promises :
       state.promises[id].assetName = name => state.promises[id].state = "rejected"

SingleFlight ==
  \A name \in AssetNames :
    /\ Cardinality(LoadsInFlight(name)) <= 1
    /\ name \in DOMAIN loader.loadingPromises <=> LoadsInFlight(name) # {}
    /\ isAssetLoaded(loader, name) =>
         \E id \in DOMAIN loader.promises :
           /\ loader.promises[id].assetName = name
           /\ loader.promises[id].state = "fulfilled"
    /\ OnlyFailedLoads(loader, name) => ~isAssetLoaded(loader, name)

\* A call made when every load of its name has failed starts a new load.
FailedLoadIsRetried ==
  Len(loader'.calls) = Len(loader.calls) + 1 =>
    LET id == Len(loader'.calls)
        call == loader'.calls[id]
    IN  OnlyFailedLoads(loader, call.assetName) =>
          /\ call.pc = "awaiting"
          /\ call.promise = id
          /\ loader'.promises[id].state = "pending"
          /\ loader'.loadingPromises[call.assetName] = id

\* C27: at most one load per asset name is in flight; a name has an entry in
\* loadingPromises exactly while its load is in flight; a name is in
\* loadedAssets only after a load of it succeeded, so isAssetLoaded is false
\* after a failed load; and the next call after a failed load starts the load
\* again.  The first three hold before and after every step.
C27_SingleFlightAndRetryAfterFailure ==
  [][loader # Null =>
       /\ SingleFlight
       /\ SingleFlight'
       /\ FailedLoadIsRetried]_vars

\* Three calls for one name: the first starts a load, the second is handed
\* that load, the load fails, and the third starts a new one.
C27_Witness ==
  /\ loader # Null
  /\ \E i, j, k \in DOMAIN loader.calls :
       /\ i < j /\ j < k
       /\ loader.calls[i].assetName = loader.calls[k].assetName
       /\ loader.calls[j].assetName = loader.calls[k].assetName
       /\ loader.calls[i].promise = i
       /\ loader.promises[i].state = "rejected"
       /\ loader.calls[j].promise = i
       /\ loader.calls[k].promise = k
       /\ ~isAssetLoaded(loader, loader.calls[k].assetName)

-----------------------------------------------------------------------------
(* C28: every executed farm action reduces money by the action's cost.     *)
(* After handleExecuteAction(action) with money >= action.cost, money is   *)
(* the previous money minus action.cost plus the yield the action earned   *)
(* (twice the crop health for a harvest of crops healthier than 50,        *)
(* nothing otherwise); an action with money < action.cost changes no game  *)
(* state.                                                                   *)

\* What the action earns in the gameState it is executed in.
YieldOf(gameState, action) ==
  IF action.type = "harvest" /\ gameState.cropHealth > 50
  THEN gameState.cropHealth * 2 ELSE 0

\* This step is a run of handleExecuteAction.
ExecuteStep == farm # Null /\ farm' # farm /\ farm'.last.handler = "execute"

C28_ExecutedActionCostsItsPrice ==
  [][ExecuteStep =>
       LET action == farm'.last.argument
           before == farm.gameState
           after == farm'.gameState
       IN  IF before.money >= action.cost
           THEN after.money = before.money - action.cost + YieldOf(before, action)
           ELSE after = before]_vars

-----------------------------------------------------------------------------
(* C29: game-state bounds.  Starting from the initial state with fixed     *)
(* satellite data, after any sequence of game-loop ticks, player actions   *)
(* and mode changes, cropHealth is within 0..100, money is not below 0 and *)
(* waterReserves is not below 0.  The reachable states are checked, and so *)
(* is every handler, with every mode, on the games nothing has been paid   *)
(* for yet moved to the edges of the bounds: water for no or one more      *)
(* irrigation, crops at either end of the scale, money at and just under a *)
(* price.                                                                   *)

WithinBounds(gameState) ==
  /\ gameState.cropHealth >= 0
  /\ gameState.cropHealth <= 100
  /\ gameState.money >= 0
  /\ gameState.waterReserves >= 0

AtTheEdges(gameState) ==
  { [gameState EXCEPT !.waterReserves = w, !.cropHealth = h, !.money = m] :
      w \in {0, 25, 50}, h \in {0, 1, 4, 51, 86, 99, 100},
      m \in {0, 49, 50, 74, 75, 199, 200} }

HandlersKeepBounds(gameState, nasaData) ==
  /\ \A action \in PlayerActions :
       WithinBounds(handleExecuteAction(gameState, nasaData, action))
  /\ \A mode \in GameModes :
       WithinBounds(handleGameModeChange(gameState, mode))
  /\ WithinBounds(gameLoopTick(gameState, "normal", nasaData, gameState.weather))

C29_GameStateWithinBounds ==
  farm # Null =>
    /\ WithinBounds(farm.gameState)
    /\ farm.executed = 0 =>
         \A edge \in AtTheEdges(farm.gameState) :
           HandlersKeepBounds(edge, farm.nasaData)

\* In a challenge game past its first day the money is spent and an
\* action has just been refused.
C29_Witness ==
  /\ farm # Null
  /\ farm.last # Null
  /\ farm.last.handler = "execute"
  /\ farm.gameState.money < farm.last.argument.cost
  /\ farm.gameState.money = 0
  /\ farm.gameState.day > 1
  /\ farm.gameState.gameMode = "challenge"

-----------------------------------------------------------------------------
(* C30: changing the game mode resets score to 0 and day to 1, sets money  *)
(* and cropHealth to the mode's starting values (casual 2000/80, challenge *)
(* 1000/70, any other mode 1500/75) and pauses the game; while the game is *)
(* paused no tick runs, so none changes day, season, cropHealth or weather *)
(* until play is resumed.                                                   *)

StartingMoney(mode) ==
  CASE mode = "casual" -> 2000 [] mode = "challenge" -> 1000 [] OTHER -> 1500

StartingCropHealth(mode) ==
  CASE mode = "casual" -> 80 [] mode = "challenge" -> 70 [] OTHER -> 75

\* The state right after handleGameModeChange(mode).
ModeJustChanged(mode) ==
  /\ farm # Null
  /\ farm.last # Null
  /\ farm.last.handler = "mode"
  /\ farm.last.argument = mode

\* The state right after a run of the interval callback.
TickJustRan == farm # Null /\ farm.last # Null /\ farm.last.handler = "tick"

C30_ModeChangeResetsAndPauses ==
  /\ \A mode \in GameModes :
       ModeJustChanged(mode) =>
         /\ farm.gameState.gameMode = mode
         /\ farm.gameState.score = 0
         /\ farm.gameState.day = 1
         /\ farm.gameState.money = StartingMoney(mode)
         /\ farm.gameState.cropHealth = StartingCropHealth(mode)
         /\ farm.gameSpeed = "paused"
  /\ TickJustRan => farm.last.gameSpeed # "paused"

\* A professional game was chosen in the middle of a game that had
\* earned a score and reached its second day.
C30_Witness ==
  /\ ModeJustChanged("professional")
  /\ farm.executed > 0
  /\ farm.gameState.season = "Winter"
  /\ farm.gameState.money = 1500

====
